---- MODULE Spec2Model ----
(***************************************************************************)
(* Model of macos/fix_project.py, the one-shot patcher that strips the    *)
(* Flutter shell-script build phases from Runner.xcodeproj/project.pbxproj.*)
(*                                                                         *)
(* Text is a sequence of symbols.  Every symbol stands for a fixed piece   *)
(* of text, chosen so that the three regular expressions of the script     *)
(* match a rendered text exactly where the operators below match the       *)
(* symbol sequence:                                                        *)
(*   "B"  /* Begin PBXShellScriptBuildPhase section */        (44 chars)   *)
(*   "E"  /* End PBXShellScriptBuildPhase section */          (42 chars)   *)
(*   "P"  ' /* PBXShellScriptBuildPhase */' with its leading blank (31)    *)
(*   "K"  33CC111E2044C6BF0003C045                            (24 chars)   *)
(*   "T"  two tab characters                                  (2 chars)    *)
(*   "H"  the hexadecimal character A (it does not occur in K)             *)
(*   "C"  a comma      "n"  a newline      "x"  the letter z               *)
(***************************************************************************)
EXTENDS Integers, Sequences, FiniteSets, TLC

\* ------------------------------------------------------------------ bounds
MaxWords == 4
MaxSectionWords == 6
MaxLineWords == 4
MaxRuns == 2

\* ------------------------------------------------------------- text basics
CharLen(c) ==
  CASE c = "B" -> 44
    [] c = "E" -> 42
    [] c = "P" -> 31
    [] c = "K" -> 24
    [] c = "T" -> 2
    [] OTHER -> 1

RECURSIVE len(_)
\* len(content): the number of characters of a text
len(s) == IF s = <<>> THEN 0 ELSE CharLen(Head(s)) + len(Tail(s))

Drop(s, k) == SubSeq(s, k + 1, Len(s))
Take(s, k) == SubSeq(s, 1, k)

StartsWith(s, p) == Len(p) <= Len(s) /\ Take(s, Len(p)) = p

\* [A-F0-9]: K is a run of 24 such characters
IsHex(c) == c \in {"H", "K"}

\* ------------------------------------------------- step 2: section search
\* position of the first Begin marker that has an End marker after it, 0 if none
SearchStart(s) ==
  LET cand == {i \in 1..Len(s) : s[i] = "B" /\ \E j \in (i+1)..Len(s) : s[j] = "E"}
  IN IF cand = {} THEN 0 ELSE CHOOSE i \in cand : \A k \in cand : i <= k

\* position of the nearest End marker after position i (.*? is lazy)
SearchEnd(s, i) ==
  CHOOSE j \in (i+1)..Len(s) : s[j] = "E" /\ \A k \in (i+1)..(j-1) : s[k] # "E"

\* re.search(pattern, content, re.DOTALL): match.group(0), or <<>> for None
Search(s) ==
  LET i == SearchStart(s)
  IN IF i = 0 THEN <<>> ELSE SubSeq(s, i, SearchEnd(s, i))

\* a stub whose separator is four tabs instead of two
new_section_wide == <<"B", "n", "T", "T", "E">>

\* line 23
new_section == <<"B", "n", "T", "E">>

RECURSIVE Replace(_, _, _)
\* str.replace(old, new): every non-overlapping occurrence, left to right
Replace(s, old, new) ==
  IF Len(s) < Len(old) THEN s
  ELSE IF StartsWith(s, old) THEN new \o Replace(Drop(s, Len(old)), old, new)
  ELSE <<Head(s)>> \o Replace(Tail(s), old, new)

\* a section step that empties the buffer when there is no section
SectionStepStrict(s) ==
  LET section == Search(s)
  IN IF section # <<>> THEN Replace(s, section, new_section) ELSE <<>>

\* lines 18-27: the buffer after the section step
SectionStep(s) ==
  LET section == Search(s)
  IN IF section # <<>> THEN Replace(s, section, new_section) ELSE s

\* ------------------------------------------ steps 3 and 4: line removals
RECURSIVE HexRun(_)
\* length of the longest prefix of s made of hexadecimal characters
HexRun(s) == IF s # <<>> /\ IsHex(Head(s)) THEN 1 + HexRun(Tail(s)) ELSE 0

\* length of the match of \t\t\t\t[A-F0-9]+ /\* PBXShellScriptBuildPhase \*/,?\n
\* at the head of s, 0 if it does not match there
MatchRef(s) ==
  IF ~StartsWith(s, <<"T", "T">>) THEN 0
  ELSE LET h == HexRun(Drop(s, 2))
           r == Drop(s, 2 + h)
       IN IF h = 0 THEN 0
          ELSE IF StartsWith(r, <<"P", "C", "n">>) THEN 2 + h + 3
          ELSE IF StartsWith(r, <<"P", "n">>) THEN 2 + h + 2
          ELSE 0

\* length of the match of \t\t\t\t33CC111E2044C6BF0003C045.*?\n at the head
\* of s, 0 if it does not match there
MatchFixed(s) ==
  IF ~StartsWith(s, <<"T", "T", "K">>) THEN 0
  ELSE LET nl == {j \in 4..Len(s) : s[j] = "n"}
       IN IF nl = {} THEN 0 ELSE CHOOSE j \in nl : \A k \in nl : j <= k

RECURSIVE SubRef(_)
\* re.sub(r'\t\t\t\t[A-F0-9]+ /\* PBXShellScriptBuildPhase \*/,?\n', '', content)
SubRef(s) ==
  IF s = <<>> THEN s
  ELSE IF MatchRef(s) > 0 THEN SubRef(Drop(s, MatchRef(s)))
  ELSE <<Head(s)>> \o SubRef(Tail(s))

RECURSIVE SubFixed(_)
\* re.sub(r'\t\t\t\t33CC111E2044C6BF0003C045.*?\n', '', content)
SubFixed(s) ==
  IF s = <<>> THEN s
  ELSE IF MatchFixed(s) > 0 THEN SubFixed(Drop(s, MatchFixed(s)))
  ELSE <<Head(s)>> \o SubFixed(Tail(s))

\* ------------------------------------------------------------ input texts
RECURSIVE Texts(_, _)
\* the texts made of at most k words of the vocabulary V
Texts(V, k) ==
  IF k = 0 THEN {<<>>}
  ELSE LET shorter == Texts(V, k - 1)
       IN shorter \cup {w \o t : w \in V, t \in shorter}

Prefixes(s) == {Take(s, k) : k \in 0..Len(s)}

\* words of the general specification
Vocabulary ==
  {<<"B">>, <<"E">>, <<"x">>, <<"n">>, <<"T">>, <<"T", "T">>, <<"H">>, <<"K">>, <<"P">>}

\* words of the specification of the section step across two runs
SectionVocabulary == {<<"T", "T", "K">>, <<"B">>, <<"E">>, <<"x">>, <<"n">>}

\* words of the specification of the line removals
LineVocabulary ==
  {<<"T", "T", "H">>, <<"T", "T", "K">>, <<"P", "n">>, <<"P", "C", "n">>,
   <<"n">>, <<"x">>, <<"K">>, <<"B">>, <<"E">>}

\* ------------------------------------------------------------------ state
VARIABLES
  pc,        \* the statement the script is about to execute
  disk,      \* content of Runner.xcodeproj/project.pbxproj
  bakExists, \* whether Runner.xcodeproj/project.pbxproj.backup exists
  bak,       \* its content
  content,   \* the in-memory buffer
  section,   \* match.group(0) of the current run, <<>> when there was no match
  runs,      \* number of invocations of the script so far
  starts     \* history: the on-disk content at the start of every run

vars == <<pc, disk, bakExists, bak, content, section, runs, starts>>

InitOn(inputs) ==
  /\ pc = "read"
  /\ disk \in inputs
  /\ bakExists = FALSE
  /\ bak = <<>>
  /\ content = <<>>
  /\ section = <<>>
  /\ runs = 1
  /\ starts = <<disk>>

Init == InitOn(Texts(Vocabulary, MaxWords))

\* lines 10-11
Read ==
  /\ pc = "read"
  /\ content' = disk
  /\ pc' = "section"
  /\ UNCHANGED <<disk, bakExists, bak, section, runs, starts>>

\* lines 10-11: open() or read() raises
ReadFail ==
  /\ pc = "read"
  /\ pc' = "aborted"
  /\ UNCHANGED <<disk, bakExists, bak, content, section, runs, starts>>

\* lines 17-27
Section ==
  /\ pc = "section"
  /\ section' = Search(content)
  /\ content' = SectionStep(content)
  /\ pc' = "sub1"
  /\ UNCHANGED <<disk, bakExists, bak, runs, starts>>

\* line 30
StripRefs ==
  /\ pc = "sub1"
  /\ content' = SubRef(content)
  /\ pc' = "sub2"
  /\ UNCHANGED <<disk, bakExists, bak, section, runs, starts>>

\* line 33
StripFixed ==
  /\ pc = "sub2"
  /\ content' = SubFixed(content)
  /\ pc' = "backup"
  /\ UNCHANGED <<disk, bakExists, bak, section, runs, starts>>

\* a backup taken from the transformed buffer
BackupSourceBuffer == content

\* line 39: what shutil.copy reads, the file on disk
BackupSource == disk

\* a backup that is kept when one exists already
BackupOnce ==
  /\ pc = "backup"
  /\ bakExists' = TRUE
  /\ bak' = IF bakExists THEN bak ELSE BackupSource
  /\ pc' = "write"
  /\ UNCHANGED <<disk, content, section, runs, starts>>

\* line 39: shutil.copy(project_file, project_file + '.backup')
Backup ==
  /\ pc = "backup"
  /\ bakExists' = TRUE
  /\ bak' = BackupSource
  /\ pc' = "write"
  /\ UNCHANGED <<disk, content, section, runs, starts>>

\* a failed copy that is swallowed, the script going on to the write
BackupFailIgnored ==
  /\ pc = "backup"
  /\ \/ UNCHANGED <<bakExists, bak>>
     \/ /\ bakExists' = TRUE
        /\ bak' \in Prefixes(disk) \ {disk}
  /\ pc' = "write"
  /\ UNCHANGED <<disk, content, section, runs, starts>>

\* line 39 raises: the backup is untouched, or created and cut short
BackupFail ==
  /\ pc = "backup"
  /\ \/ UNCHANGED <<bakExists, bak>>
     \/ /\ bakExists' = TRUE
        /\ bak' \in Prefixes(disk) \ {disk}
  /\ pc' = "aborted"
  /\ UNCHANGED <<disk, content, section, runs, starts>>

\* lines 43-44
Write ==
  /\ pc = "write"
  /\ disk' = content
  /\ pc' = "done"
  /\ UNCHANGED <<bakExists, bak, content, section, runs, starts>>

\* lines 43-44 raise: the file is untouched, or truncated and cut short
WriteFail ==
  /\ pc = "write"
  /\ disk' \in {disk} \cup (Prefixes(content) \ {content})
  /\ pc' = "aborted"
  /\ UNCHANGED <<bakExists, bak, content, section, runs, starts>>

\* the developer runs the script again
Rerun ==
  /\ pc = "done"
  /\ runs < MaxRuns
  /\ runs' = runs + 1
  /\ starts' = Append(starts, disk)
  /\ content' = <<>>
  /\ section' = <<>>
  /\ pc' = "read"
  /\ UNCHANGED <<disk, bakExists, bak>>

Next ==
  \/ Read
  \/ ReadFail
  \/ Section
  \/ StripRefs
  \/ StripFixed
  \/ Backup
  \/ BackupFail
  \/ Write
  \/ WriteFail
  \/ Rerun

Spec == Init /\ [][Next]_vars

InitSection == InitOn(Texts(SectionVocabulary, MaxSectionWords))
SpecSection == InitSection /\ [][Next]_vars

InitLines == InitOn(Texts(LineVocabulary, MaxLineWords))
SpecLines == InitLines /\ [][Next]_vars

TypeOK ==
  /\ pc \in {"read", "section", "sub1", "sub2", "backup", "write", "done", "aborted"}
  /\ runs \in 1..MaxRuns
  /\ Len(starts) = runs
  /\ bakExists \in BOOLEAN

\* ------------------------------------------------------ helper predicates
Count(s, c) == Cardinality({i \in 1..Len(s) : s[i] = c})

\* the text holds exactly one Begin marker and one End marker, in this order
OneBlock(s) == Search(s) # <<>> /\ Count(s, "B") = 1 /\ Count(s, "E") = 1

\* the text between the markers of the section found in s
Body(s) == SubSeq(Search(s), 2, Len(Search(s)) - 1)

Contains(s, p) == \E i \in 0..Len(s) : StartsWith(Drop(s, i), p)

\* position i starts a line of s
LineStart(s, i) == i = 1 \/ s[i - 1] = "n"

RECURSIVE Indent(_)
\* number of leading tab symbols of s
Indent(s) == IF s # <<>> /\ Head(s) = "T" THEN 1 + Indent(Tail(s)) ELSE 0

\* a line of s begins, after its indentation, with the fixed identifier
HasFixedLine(s) ==
  \E i \in 1..Len(s) :
     /\ LineStart(s, i)
     /\ LET l == Drop(s, i - 1) IN StartsWith(Drop(l, Indent(l)), <<"K">>)

\* a line of s is four tabs, hexadecimal characters, the build-phase comment,
\* an optional comma and a newline
HasRefLine(s) ==
  \E i \in 1..Len(s) : LineStart(s, i) /\ MatchRef(Drop(s, i - 1)) > 0

\* ------------------------------------------------------------------ claims

\* C1: when a run completes, the backup file exists and holds the content the
\* input file had when that run started.
BackupIsOriginal ==
  pc = "done" => bakExists /\ bak = starts[runs]

C1Witness ==
  pc = "done" /\ section # <<>> /\ bakExists /\ bak = starts[runs] /\ disk # bak

\* C2: the steps run in the order read, transform, backup, write, each once;
\* the input file changes only in the write step, after the backup holds the
\* on-disk content; a failed read or a failed backup aborts the run with the
\* input file unchanged.
OverwriteOnlyAfterBackup ==
  [][ /\ (disk' # disk => pc = "write" /\ bakExists /\ bak = disk)
      /\ (pc' = "aborted" /\ pc \in {"read", "backup"} => disk' = disk)
      /\ (pc' # pc /\ pc' # "aborted" =>
            <<pc, pc'>> \in {<<"read", "section">>, <<"section", "sub1">>,
                             <<"sub1", "sub2">>, <<"sub2", "backup">>,
                             <<"backup", "write">>, <<"write", "done">>,
                             <<"done", "read">>})
    ]_vars

\* the copy failed half way in the first run: the input file is as it was
C2Witness ==
  /\ pc = "aborted" /\ runs = 1
  /\ bakExists /\ bak # starts[1]
  /\ disk = starts[1] /\ content # disk

\* C3: when the input holds one section block, the output holds the block with
\* an empty body: Begin marker, newline and two tabs, End marker.
StubInOutput ==
  pc = "done" /\ runs = 1 /\ OneBlock(starts[1]) => Contains(disk, new_section)

\* C4: when the input holds one section block with a non-empty body, the output
\* is strictly shorter than the input.
OutputShrinks ==
  pc = "done" /\ runs = 1 /\ OneBlock(starts[1]) /\ Body(starts[1]) # <<>>
    => len(disk) < len(starts[1])

\* C4 as amended: when the input holds a section block whose body is longer
\* than the three characters of the stub separator, the output is strictly
\* shorter than the input.
OutputShrinksLongBody ==
  pc = "done" /\ runs = 1 /\ Search(starts[1]) # <<>> /\ len(Body(starts[1])) > 3
    => len(disk) < len(starts[1])

C4Witness ==
  /\ pc = "done" /\ runs = 1 /\ OneBlock(starts[1])
  /\ len(Body(starts[1])) = 4
  /\ len(disk) < len(starts[1])

\* C5: when there is no section, the section step goes on to the next step and
\* leaves the buffer unchanged, and a run that completes leaves the backup
\* equal to the input and the file equal to the input without the matches of
\* the two line-removal patterns.
NoSectionFrame ==
  [][ /\ (pc = "section" /\ Search(content) = <<>> =>
            pc' = "sub1" /\ content' = content)
      /\ (pc' = "done" /\ pc = "write" /\ Search(starts[runs]) = <<>> =>
            /\ disk' = SubFixed(SubRef(starts[runs]))
            /\ bakExists' /\ bak' = starts[runs])
    ]_vars

\* no section, and both removals took something away
C5Witness ==
  /\ pc = "done" /\ runs = 1 /\ section = <<>>
  /\ SubRef(starts[1]) # starts[1]
  /\ disk # SubRef(starts[1])
  /\ disk = SubFixed(SubRef(starts[1]))
  /\ bak = starts[1]

\* C6: the output has no line made of four tabs, hexadecimal characters, the
\* build-phase comment, an optional comma and a newline.
NoRefLineInOutput ==
  pc = "done" => ~HasRefLine(disk)

\* C7: no line of the output begins with the fixed identifier, whatever its
\* indentation and whether or not it ends with a newline.
NoFixedLineInOutput ==
  pc = "done" => ~HasFixedLine(disk)

\* C8: in a second run on the output of the first, the section step leaves the
\* buffer unchanged.
SecondSectionStepIdle ==
  [][pc = "section" /\ runs = 2 => content' = content]_vars

\* C9: the section step replaces the span from the first Begin marker to the
\* nearest End marker and leaves the text before and after it unchanged.
SectionStepReplacesOneSpan ==
  [][pc = "section" /\ Search(content) # <<>> =>
       LET i == SearchStart(content)
           j == SearchEnd(content, i)
       IN content' = Take(content, i - 1) \o new_section \o Drop(content, j)
    ]_vars

\* C10: after two completed runs of which the first changed the file, the
\* backup holds the output of the first run, and neither the backup nor the
\* file holds the content from before the first run.
BackupOverwritten ==
  pc = "done" /\ runs = 2 /\ starts[2] # starts[1]
    => /\ bakExists /\ bak = starts[2]
       /\ bak # starts[1]
       /\ disk # starts[1]

C10Witness ==
  pc = "done" /\ runs = 2 /\ starts[2] # starts[1] /\ bak = starts[2] /\ disk # bak

====
